---- MODULE Spec2Model ----
(***************************************************************************)
(* Digital diary: the day-bucket upserts of server/db.ts, the tRPC         *)
(* procedures of server/routers.ts that call them, and the period          *)
(* aggregation of insights.generateInsights.                               *)
(*                                                                         *)
(* Instants are JavaScript Date values: integer milliseconds.  The local   *)
(* calendar is taken with offset 0 and without daylight-saving changes, so *)
(* that every local day has MsPerDay milliseconds.  The storage            *)
(* collaborator keeps a timestamp exactly as it was handed over.           *)
(*                                                                         *)
(* A nullable column and an optional input are tuples: << >> when there    *)
(* is no value, <<v>> when there is one.                                   *)
(***************************************************************************)
EXTENDS Integers, Sequences, FiniteSets, TLC

(* ------------------------------ bounds --------------------------------- *)

\* Local calendar days the inputs are drawn from.
NumDays == 2

\* Rows the mood_history and habit_completions tables hold together.
MaxRows == 2

\* Rows the mood_insights table holds.
MaxInsights == 2

\* Rows the aggregation loop is followed over.
MaxMoods == 40

\* Rows the habits table holds.
MaxHabits == 4

\* Rows the diary_entries table holds.
MaxEntries == 2

\* Rows the media_files table holds.
MaxMedia == 1

(* ------------------------------ domain --------------------------------- *)

Null == << >>

Undefined == << >>

Some(v) == <<v>>

Users == {1, 2}

HabitIds == {1}

\* mysqlEnum("mood", [...]) and z.enum([...]) of mood.record, in declaration order.
MoodEnum == <<"excellent", "good", "neutral", "sad", "terrible">>

MoodSet == {MoodEnum[i] : i \in 1..Len(MoodEnum)}

PeriodEnum == {"week", "month", "year"}

\* setHours(23, 59, 59, 999): the offset of the last millisecond of a local day.
EndOfDayOffset == ((23 * 60 + 59) * 60 + 59) * 1000 + 999

MsPerDay == EndOfDayOffset + 1

\* new Date(date).setHours(0, 0, 0, 0)
startOfDay(date) == date - (date % MsPerDay)

\* The end of the day taken as the first instant of the next day.
endOfDayAtNextMidnight(date) == date - (date % MsPerDay) + MsPerDay

\* new Date(date).setHours(23, 59, 59, 999)
endOfDay(date) == startOfDay(date) + EndOfDayOffset

\* The local calendar day an instant lies on, as a day number.
LocalDay(date) == date \div MsPerDay

\* The instants the inputs are drawn from: the first and the last millisecond
\* of the first day, and the first millisecond of every later day.
Instants == {0, EndOfDayOffset} \cup {d * MsPerDay : d \in 1..(NumDays - 1)}

\* The payloads mood.record is called with (all pass its input validation).
MoodPayloads ==
  { [mood |-> "good", moodIntensity |-> 7, notes |-> Some("a")],
    [mood |-> "sad", moodIntensity |-> 3, notes |-> Undefined] }

(* ------------------------------- state --------------------------------- *)

VARIABLES
  dbAvailable,       \* getDb() returns a handle (DATABASE_URL is set)
  now,               \* the server's clock, what new Date() reads
  moodHistory,       \* table mood_history, rows in id order
  habitCompletions,  \* table habit_completions, rows in id order
  lastOp,            \* the procedure that ran last and its outcome
  inFlight,          \* mood.record requests between their lookup and their write
  staleWrite,        \* history: a write has acted on an outdated lookup answer
  habits,            \* table habits, rows in id order
  moodInsights,      \* table mood_insights, rows in id order
  loop,              \* generateInsights' accumulators over the rows read so far
  diaryEntries,      \* table diary_entries, rows in id order
  mediaFiles,        \* table media_files, rows in id order
  page               \* InsightsPage: the selected period and the moods fetched

vars ==
  <<dbAvailable, now, moodHistory, habitCompletions, lastOp, inFlight, staleWrite,
    habits, moodInsights, loop, diaryEntries, mediaFiles, page>>

\* The part of the state the diary owns.
journalVars == <<diaryEntries, mediaFiles>>

\* The part of the state the aggregation owns.
insightVars == <<habits, moodInsights, loop>>

\* What a caller sees of a procedure: its name, ok or the error it threw, and
\* (for an upsert) whether the lookup found a row.
Outcome(op, result, found) == [op |-> op, result |-> result, found |-> found]

NoOp == Outcome("none", "ok", FALSE)

\* The requests that may be served at the same time.
Requests == {"A", "B"}

\* A request that is not being served.
Idle == [pc |-> "idle"]

Init ==
  /\ dbAvailable \in BOOLEAN
  /\ now = 0
  /\ moodHistory = << >>
  /\ habitCompletions = << >>
  /\ lastOp = NoOp
  /\ inFlight = [q \in Requests |-> Idle]
  /\ staleWrite = FALSE
  /\ habits = << >>
  /\ moodInsights = << >>
  /\ loop = [moodCounts |-> << >>, totalIntensity |-> 0, length |-> 0]
  /\ diaryEntries = << >>
  /\ mediaFiles = << >>
  /\ page = [selectedPeriod |-> "week", moods |-> << >>]

(* --------------------------- storage layer ------------------------------ *)

\* db.select().from(t).where(...) is SelectSeq: the rows of the table that
\* satisfy the where-clause, in the order the table is scanned (by primary
\* key).

\* .limit(1)
Limit1(rows) == IF Len(rows) > 0 THEN <<rows[1]>> ELSE << >>

\* A key of the object handed to .set(): <<v>> when its value v is defined,
\* Undefined when it is not.
Given(v) == <<v>>

\* A key whose value is an optional input (a nullable column's new value).
GivenOptional(opt) == IF opt = Undefined THEN Undefined ELSE <<opt>>

\* db.update(t).set(updates): drizzle leaves out every key whose value is
\* undefined, so such a column keeps its stored value.
SetColumns(row, updates) ==
  [f \in DOMAIN row |->
     IF f \in DOMAIN updates /\ updates[f] # Undefined
       THEN updates[f][1]
       ELSE row[f]]

\* db.update(t).set(updates).where(eq(t.id, id))
UpdateById(table, id, updates) ==
  [i \in 1..Len(table) |->
     IF table[i].id = id THEN SetColumns(table[i], updates) ELSE table[i]]

\* id int AUTO_INCREMENT: rows are never deleted, so the next id is Len + 1.
NextId(table) == Len(table) + 1

(* ------------------------- day-bucket upserts --------------------------- *)

\* MoodDayMatch without the lower bound of the day window.
MoodDayMatchNoLowerBound(userId, date, r) ==
  /\ r.userId = userId
  /\ r.date <= endOfDay(date)

\* MoodDayMatch with the last millisecond of the day left out of the window.
MoodDayMatchExclusiveEnd(userId, date, r) ==
  /\ r.userId = userId
  /\ r.date >= startOfDay(date)
  /\ r.date < endOfDay(date)

\* The where-clause of upsertMoodHistory's lookup.
MoodDayMatch(userId, date, r) ==
  /\ r.userId = userId
  /\ r.date >= startOfDay(date)
  /\ r.date <= endOfDay(date)

\* db.select().from(moodHistory).where(...).limit(1)
MoodExisting(table, userId, date) ==
  Limit1(SelectSeq(table, LAMBDA r : MoodDayMatch(userId, date, r)))

\* db.update(moodHistory).set({ mood, moodIntensity, notes })
MoodUpdateSet(mood, moodIntensity, notes) ==
  [mood |-> Given(mood), moodIntensity |-> Given(moodIntensity),
   notes |-> GivenOptional(notes)]

\* db.insert(moodHistory).values({ userId, date, mood, moodIntensity, notes })
MoodInsertRow(table, userId, date, mood, moodIntensity, notes) ==
  [id |-> NextId(table), userId |-> userId, date |-> date, mood |-> mood,
   moodIntensity |-> moodIntensity,
   notes |-> IF notes = Undefined THEN Null ELSE notes]

\* What the write reads of the lookup's answer: its length and existing[0].id.
IdsOf(rows) == [i \in 1..Len(rows) |-> [id |-> rows[i].id]]

\* MoodWrite whose update goes to every row of the user's day.
MoodWriteEveryMatch(table, existing, userId, date, mood, moodIntensity, notes) ==
  IF Len(existing) > 0
    THEN [i \in 1..Len(table) |->
            IF table[i].userId = userId /\ LocalDay(table[i].date) = LocalDay(date)
              THEN SetColumns(table[i], MoodUpdateSet(mood, moodIntensity, notes))
              ELSE table[i]]
    ELSE Append(table,
                MoodInsertRow(table, userId, date, mood, moodIntensity, notes))

\* if (existing.length > 0) update by existing[0].id, else insert.
MoodWrite(table, existing, userId, date, mood, moodIntensity, notes) ==
  IF Len(existing) > 0
    THEN UpdateById(table, existing[1].id,
                    MoodUpdateSet(mood, moodIntensity, notes))
    ELSE Append(table,
                MoodInsertRow(table, userId, date, mood, moodIntensity, notes))

\* The table after upsertMoodHistory, storage being available and no other
\* request writing between its lookup and its write.
upsertMoodHistory(table, userId, date, mood, moodIntensity, notes) ==
  MoodWrite(table, MoodExisting(table, userId, date),
            userId, date, mood, moodIntensity, notes)

\* HabitDayMatch with lt in place of lte: the day's last instant is left out.
HabitDayMatchExclusiveEnd(habitId, userId, date, r) ==
  /\ r.habitId = habitId
  /\ r.userId = userId
  /\ r.date >= startOfDay(date)
  /\ r.date < endOfDay(date)

\* The where-clause of upsertHabitCompletion's lookup.
HabitDayMatch(habitId, userId, date, r) ==
  /\ r.habitId = habitId
  /\ r.userId = userId
  /\ r.date >= startOfDay(date)
  /\ r.date <= endOfDay(date)

HabitExisting(table, habitId, userId, date) ==
  Limit1(SelectSeq(table, LAMBDA r : HabitDayMatch(habitId, userId, date, r)))

\* { completed: completed ? 1 : 0, completedAt: completed ? new Date() : null }
CompletionColumns(completed, clock) ==
  [completed |-> IF completed THEN 1 ELSE 0,
   completedAt |-> IF completed THEN Some(clock) ELSE Null]

\* HabitUpdateRow that writes completed alone and never clears the stamp.
HabitUpdateRowKeepsStamp(row, completed, clock) ==
  [row EXCEPT !.completed = CompletionColumns(completed, clock).completed]

\* db.update(habitCompletions).set({...}).where(eq(id, existing[0].id)):
\* both values are defined (a number, and a Date or null), so both are written.
HabitUpdateRow(row, completed, clock) ==
  [row EXCEPT !.completed = CompletionColumns(completed, clock).completed,
              !.completedAt = CompletionColumns(completed, clock).completedAt]

\* HabitInsertRow that leaves completedAt to the column's default, null.
HabitInsertRowUnstamped(table, habitId, userId, date, completed, clock) ==
  [id |-> NextId(table), habitId |-> habitId, userId |-> userId, date |-> date,
   completed |-> CompletionColumns(completed, clock).completed,
   completedAt |-> Null,
   notes |-> Null]

\* db.insert(habitCompletions).values({ habitId, userId, date, completed, completedAt })
HabitInsertRow(table, habitId, userId, date, completed, clock) ==
  [id |-> NextId(table), habitId |-> habitId, userId |-> userId, date |-> date,
   completed |-> CompletionColumns(completed, clock).completed,
   completedAt |-> CompletionColumns(completed, clock).completedAt,
   notes |-> Null]

\* The table after upsertHabitCompletion, storage being available.
upsertHabitCompletion(table, habitId, userId, date, completed, clock) ==
  LET existing == HabitExisting(table, habitId, userId, date) IN
    IF Len(existing) > 0
      THEN [i \in 1..Len(table) |->
              IF table[i].id = existing[1].id
                THEN HabitUpdateRow(table[i], completed, clock)
                ELSE table[i]]
      ELSE Append(table,
                  HabitInsertRow(table, habitId, userId, date, completed, clock))

(* ----------------------------- procedures ------------------------------- *)

\* The model stops inserting when the tables are full.
RoomFor(table, grown) ==
  Len(grown) = Len(table) \/ Len(moodHistory) + Len(habitCompletions) < MaxRows

\* The call returns as if it had written.
ReportsOk == "ok"

\* if (!db) throw new Error("Database not available")
DbError == "Database not available"

\* z.object({ date, mood: z.enum([...]), moodIntensity: z.number().min(1).max(10), notes })
MoodRecordInputValid(mood, moodIntensity) ==
  /\ mood \in MoodSet
  /\ moodIntensity >= 1
  /\ moodIntensity <= 10

\* mood.record
MoodRecord(userId, date, p) ==
  LET grown == upsertMoodHistory(moodHistory, userId, date,
                                 p.mood, p.moodIntensity, p.notes)
      found == Len(MoodExisting(moodHistory, userId, date)) > 0
  IN
    /\ IF ~MoodRecordInputValid(p.mood, p.moodIntensity)
         THEN /\ lastOp' = Outcome("mood.record", "BAD_REQUEST", FALSE)
              /\ UNCHANGED moodHistory
         ELSE IF ~dbAvailable
           THEN /\ lastOp' = Outcome("mood.record", DbError, FALSE)
                /\ UNCHANGED moodHistory
           ELSE /\ RoomFor(moodHistory, grown)
                /\ moodHistory' = grown
                /\ lastOp' = Outcome("mood.record", "ok", found)
    /\ UNCHANGED <<dbAvailable, now, habitCompletions, inFlight, staleWrite, insightVars, journalVars, page>>

\* habitCompletions.toggle
HabitToggle(userId, habitId, date, completed) ==
  LET grown == upsertHabitCompletion(habitCompletions, habitId, userId, date,
                                     completed, now)
      found == Len(HabitExisting(habitCompletions, habitId, userId, date)) > 0
  IN
    /\ IF ~dbAvailable
         THEN /\ lastOp' = Outcome("habitCompletions.toggle", DbError, FALSE)
              /\ UNCHANGED habitCompletions
         ELSE /\ RoomFor(habitCompletions, grown)
              /\ habitCompletions' = grown
              /\ lastOp' = Outcome("habitCompletions.toggle", "ok", found)
    /\ UNCHANGED <<dbAvailable, now, moodHistory, inFlight, staleWrite, insightVars, journalVars, page>>

DoMoodRecord == \E u \in Users, t \in Instants, p \in MoodPayloads : MoodRecord(u, t, p)

DoHabitToggle ==
  \E u \in Users, h \in HabitIds, t \in Instants, c \in BOOLEAN : HabitToggle(u, h, t, c)

Next == DoMoodRecord \/ DoHabitToggle

\* Every procedure runs from its first line to its last before the next starts.
Spec == Init /\ [][Next]_vars

(* ------------------ mood.record, requests interleaving ------------------ *)

\* mood.record up to its first await on storage: the input is validated, the
\* handle is taken, the day window is computed and the lookup is run.
MoodRecordLookup(q, userId, date, p) ==
  /\ inFlight[q] = Idle
  /\ IF ~MoodRecordInputValid(p.mood, p.moodIntensity)
       THEN /\ lastOp' = Outcome("mood.record", "BAD_REQUEST", FALSE)
            /\ UNCHANGED inFlight
       ELSE IF ~dbAvailable
         THEN /\ lastOp' = Outcome("mood.record", DbError, FALSE)
              /\ UNCHANGED inFlight
         ELSE /\ inFlight' = [inFlight EXCEPT ![q] =
                   [pc |-> "write", userId |-> userId, date |-> date,
                    mood |-> p.mood, moodIntensity |-> p.moodIntensity,
                    notes |-> p.notes,
                    existing |-> IdsOf(MoodExisting(moodHistory, userId, date))]]
              /\ UNCHANGED lastOp
  /\ UNCHANGED <<dbAvailable, now, moodHistory, habitCompletions, staleWrite, insightVars, journalVars, page>>

\* mood.record from the lookup's answer on: the update or the insert.
MoodRecordWrite(q) ==
  LET c == inFlight[q]
      grown == MoodWrite(moodHistory, c.existing, c.userId, c.date,
                         c.mood, c.moodIntensity, c.notes)
  IN
    /\ c.pc = "write"
    /\ RoomFor(moodHistory, grown)
    /\ moodHistory' = grown
    /\ lastOp' = Outcome("mood.record", "ok", Len(c.existing) > 0)
    /\ inFlight' = [inFlight EXCEPT ![q] = Idle]
    /\ staleWrite' =
         (staleWrite \/ c.existing # IdsOf(MoodExisting(moodHistory, c.userId, c.date)))
    /\ UNCHANGED <<dbAvailable, now, habitCompletions, insightVars, journalVars, page>>

\* The payload each request carries.
RequestPayload(q) ==
  IF q = "A"
    THEN [mood |-> "good", moodIntensity |-> 7, notes |-> Some("a")]
    ELSE [mood |-> "sad", moodIntensity |-> 3, notes |-> Undefined]

DoMoodRecordLookup ==
  \E q \in Requests, u \in Users, t \in Instants :
    MoodRecordLookup(q, u, t, RequestPayload(q))

DoMoodRecordWrite == \E q \in Requests : MoodRecordWrite(q)

NextRace == DoMoodRecordLookup \/ DoMoodRecordWrite

\* Requests are served concurrently: a request's lookup and its write are
\* two steps, and other requests' steps may come between them.
SpecRace == Init /\ [][NextRace]_vars

(* ------------------- claims about the day-bucket upserts ---------------- *)

\* At most one mood_history row per user and local calendar day.
MoodAtMostOnePerDay ==
  \A i, j \in 1..Len(moodHistory) :
    (/\ moodHistory[i].userId = moodHistory[j].userId
     /\ LocalDay(moodHistory[i].date) = LocalDay(moodHistory[j].date))
      => i = j

\* The rows of a mood_history table that belong to a user and lie on a day.
MoodRowsOn(table, userId, day) ==
  {i \in 1..Len(table) : table[i].userId = userId /\ LocalDay(table[i].date) = day}

\* The rows of a habit_completions table of one habit, user and day.
HabitRowsOn(table, habitId, userId, day) ==
  {i \in 1..Len(table) :
     /\ table[i].habitId = habitId
     /\ table[i].userId = userId
     /\ LocalDay(table[i].date) = day}

\* The notes a call's payload stands for: none when the call omits them.
PayloadNotes(notes) == IF notes = Undefined THEN Null ELSE notes

\* C1: from a store with no mood record for the user and day, an upsert at t1
\* followed by an upsert at t2 of the same local day leaves exactly one record
\* for that user and day; its mood, moodIntensity and notes are those of the
\* second call (no notes when the second call omits them) and its date is t1.
\* Stated per call: the call on an empty day stores one record dated as the
\* call, and the call on a day with one record leaves that one record, dated
\* as before, with the payload of the call.
C1_SecondUpsertOverwritesPayload ==
  [][\A u \in Users, t \in Instants, p \in MoodPayloads :
       (MoodRecord(u, t, p) /\ lastOp'.result = "ok") =>
         LET before == MoodRowsOn(moodHistory, u, LocalDay(t))
             after == MoodRowsOn(moodHistory', u, LocalDay(t))
         IN
           /\ before = {} =>
                /\ Cardinality(after) = 1
                /\ \A i \in after : moodHistory'[i].date = t
           /\ Cardinality(before) = 1 =>
                /\ after = before
                /\ \A i \in after :
                     /\ moodHistory'[i].date = moodHistory[i].date
                     /\ moodHistory'[i].mood = p.mood
                     /\ moodHistory'[i].moodIntensity = p.moodIntensity
                     /\ moodHistory'[i].notes = PayloadNotes(p.notes)
    ]_vars

C3_HabitAtMostOnePerDay ==
  \A i, j \in 1..Len(habitCompletions) :
    (/\ habitCompletions[i].habitId = habitCompletions[j].habitId
     /\ habitCompletions[i].userId = habitCompletions[j].userId
     /\ LocalDay(habitCompletions[i].date) = LocalDay(habitCompletions[j].date))
      => i = j

\* A toggle has just found and updated a row, the same habit and user having
\* a row on another day too.
C3_ToggledAgain ==
  /\ lastOp = Outcome("habitCompletions.toggle", "ok", TRUE)
  /\ \E i, j \in 1..Len(habitCompletions) :
       /\ i # j
       /\ habitCompletions[i].habitId = habitCompletions[j].habitId
       /\ habitCompletions[i].userId = habitCompletions[j].userId

\* C4: an upsert never updates a record of the same owning key that lies on
\* another local day: every record on another day is left as it was, and the
\* day of the call holds a record of its own afterwards.  For mood records
\* and for habit completions.
C4_OtherDaysUntouched ==
  [][/\ \A u \in Users, t \in Instants, p \in MoodPayloads :
          (lastOp' = Outcome("mood.record", "ok", lastOp'.found) /\ MoodRecord(u, t, p)) =>
            /\ \A i \in 1..Len(moodHistory) :
                 LocalDay(moodHistory[i].date) # LocalDay(t) =>
                   /\ i <= Len(moodHistory')
                   /\ moodHistory'[i] = moodHistory[i]
            /\ MoodRowsOn(moodHistory', u, LocalDay(t)) # {}
            /\ (MoodRowsOn(moodHistory, u, LocalDay(t)) = {}) =>
                 Len(moodHistory') = Len(moodHistory) + 1
     /\ \A u \in Users, h \in HabitIds, t \in Instants, c \in BOOLEAN :
          (lastOp' = Outcome("habitCompletions.toggle", "ok", lastOp'.found)
             /\ HabitToggle(u, h, t, c)) =>
            /\ \A i \in 1..Len(habitCompletions) :
                 LocalDay(habitCompletions[i].date) # LocalDay(t) =>
                   /\ i <= Len(habitCompletions')
                   /\ habitCompletions'[i] = habitCompletions[i]
            /\ HabitRowsOn(habitCompletions', h, u, LocalDay(t)) # {}
            /\ (HabitRowsOn(habitCompletions, h, u, LocalDay(t)) = {}) =>
                 Len(habitCompletions') = Len(habitCompletions) + 1
    ]_vars

\* An upsert has just inserted a mood record, the same user having one on
\* another day already: two records of one owning key.
C4_TwoDaysTwoRecords ==
  /\ lastOp = Outcome("mood.record", "ok", FALSE)
  /\ \E i, j \in 1..Len(moodHistory) :
       /\ i # j
       /\ moodHistory[i].userId = moodHistory[j].userId
       /\ LocalDay(moodHistory[i].date) # LocalDay(moodHistory[j].date)

\* C5: toggling with completed = false a habit, user and day whose one record
\* is completed leaves exactly that one record, with completed = 0 and
\* completedAt = null.
C5_ToggleOffClears ==
  [][\A u \in Users, h \in HabitIds, t \in Instants :
       LET before == HabitRowsOn(habitCompletions, h, u, LocalDay(t))
           after == HabitRowsOn(habitCompletions', h, u, LocalDay(t))
       IN
         (/\ lastOp' = Outcome("habitCompletions.toggle", "ok", TRUE)
          /\ HabitToggle(u, h, t, FALSE)
          /\ Cardinality(before) = 1
          /\ \A i \in before : habitCompletions[i].completed = 1)
           => /\ after = before
              /\ Len(habitCompletions') = Len(habitCompletions)
              /\ \A i \in after :
                   /\ habitCompletions'[i].completed = 0
                   /\ habitCompletions'[i].completedAt = Null
    ]_vars

\* A toggle has just updated a row that is now not completed and carries no
\* completion timestamp.
C5_ToggledOff ==
  /\ lastOp = Outcome("habitCompletions.toggle", "ok", TRUE)
  /\ \E i \in 1..Len(habitCompletions) :
       /\ habitCompletions[i].completed = 0
       /\ habitCompletions[i].completedAt = Null

(* ------------------------- number formatting ---------------------------- *)

\* The remainder after `left` more binary digits of r / q, and the last digit.
RECURSIVE QuotientBits(_, _, _, _)
QuotientBits(r, q, left, last) ==
  IF left = 0
    THEN [rem |-> r, last |-> last]
    ELSE IF 2 * r >= q
      THEN QuotientBits(2 * r - q, q, left - 1, 1)
      ELSE QuotientBits(2 * r, q, left - 1, 0)

\* The remainder of r / q (r < q, r > 0) right after its first binary digit 1.
RECURSIVE AfterLeadingOne(_, _)
AfterLeadingOne(r, q) ==
  IF 2 * r >= q THEN 2 * r - q ELSE AfterLeadingOne(2 * r, q)

\* The number of binary digits of a >= 1.
RECURSIVE BitLength(_)
BitLength(a) == IF a <= 1 THEN 1 ELSE 1 + BitLength(a \div 2)

\* The sign of (the IEEE 754 double nearest to p / q) - p / q, for p >= 0 and
\* q > 0: the quotient is cut after 53 significant binary digits and rounded
\* to nearest, ties to even.
DoubleDivisionError(p, q) ==
  LET whole == p \div q
      cut == IF whole >= 1
               THEN QuotientBits(p % q, q, 53 - BitLength(whole), whole % 2)
               ELSE IF p = 0
                 THEN [rem |-> 0, last |-> 0]
                 ELSE QuotientBits(AfterLeadingOne(p, q), q, 52, 1)
  IN
    IF cut.rem = 0 THEN 0
    ELSE IF 2 * cut.rem < q THEN 0 - 1
    ELSE IF 2 * cut.rem > q THEN 1
    ELSE IF cut.last = 0 THEN 0 - 1 ELSE 1

\* (p / q).toFixed(2) as a number of hundredths: the integer n for which
\* n / 100 is nearest to the double p / q, the larger of the two when both
\* are as near.  The double is within 2^-52 of p / q in relative terms, far
\* less than the distance from p / q to a midpoint between hundredths unless
\* p / q is such a midpoint; there the double's own error decides.
ToFixed2Hundredths(p, q) ==
  LET lo == (100 * p) \div q
      rem == (100 * p) % q
  IN
    IF 2 * rem < q THEN lo
    ELSE IF 2 * rem > q THEN lo + 1
    ELSE IF DoubleDivisionError(p, q) < 0 THEN lo ELSE lo + 1

\* The decimal string of a number of hundredths: digits, ".", two digits.
FixedString(n) == <<n \div 100, ".", (n \div 10) % 10, n % 10>>

\* (p / q).toFixed(2)
toFixed2(p, q) == FixedString(ToFixed2Hundredths(p, q))

(* ------------------------ insights.generateInsights --------------------- *)

\* The rows of seq with row r put before the first row dated earlier than r.
RECURSIVE InsertByDateDesc(_, _)
InsertByDateDesc(sorted, r) ==
  IF sorted = << >> THEN <<r>>
  ELSE IF Head(sorted).date < r.date THEN <<r>> \o sorted
  ELSE <<Head(sorted)>> \o InsertByDateDesc(Tail(sorted), r)

\* .orderBy(desc(moodHistory.date)); rows of one date stay in table order.
RECURSIVE OrderByDateDesc(_)
OrderByDateDesc(rows) ==
  IF rows = << >> THEN << >>
  ELSE InsertByDateDesc(OrderByDateDesc(SubSeq(rows, 1, Len(rows) - 1)),
                        rows[Len(rows)])

\* The where-clause without its lower bound on the date.
MoodRangeMatchNoLowerBound(userId, startDate, endDate, r) ==
  /\ r.userId = userId
  /\ r.date <= endDate

\* The where-clause of getMoodHistoryByDateRange.
MoodRangeMatch(userId, startDate, endDate, r) ==
  /\ r.userId = userId
  /\ r.date >= startDate
  /\ r.date <= endDate

getMoodHistoryByDateRange(userId, startDate, endDate) ==
  IF ~dbAvailable THEN << >>
  ELSE OrderByDateDesc(
         SelectSeq(moodHistory,
                     LAMBDA r : MoodRangeMatch(userId, startDate, endDate, r)))

\* The listing without the isActive condition.
getHabitsByUserAnyState(userId) ==
  IF ~dbAvailable THEN << >>
  ELSE SelectSeq(habits, LAMBDA h : h.userId = userId)

\* where userId = ? and isActive = 1 order by createdAt; rows created at the
\* same instant stay in table order.
getHabitsByUser(userId) ==
  IF ~dbAvailable THEN << >>
  ELSE SelectSeq(habits, LAMBDA h : h.userId = userId /\ h.isActive = 1)

\* m.mood as it is stored.
MoodKeyRaw(m) == m.mood

\* m.mood || "unknown": a missing category is the empty string here.
MoodKey(m) == IF m.mood = "" THEN "unknown" ELSE m.mood

\* m.moodIntensity || 0
IntensityOrZero(m) == IF m.moodIntensity = 0 THEN 0 ELSE m.moodIntensity

\* The index of key among the entries of a counts object, 0 when it has none.
KeyIndex(counts, key) ==
  IF \E i \in 1..Len(counts) : counts[i][1] = key
    THEN CHOOSE i \in 1..Len(counts) : counts[i][1] = key
    ELSE 0

\* moodCounts[key] = (moodCounts[key] || 0) + 1: a new key goes last.
Increment(counts, key) ==
  IF KeyIndex(counts, key) = 0
    THEN Append(counts, <<key, 1>>)
    ELSE [counts EXCEPT ![KeyIndex(counts, key)] = <<key, @[2] + 1>>]

\* const moodCounts = {}; let totalIntensity = 0
EmptyLoop == [moodCounts |-> << >>, totalIntensity |-> 0, length |-> 0]

\* The body of moods.forEach
Accumulate(acc, m) ==
  [moodCounts |-> Increment(acc.moodCounts, MoodKey(m)),
   totalIntensity |-> acc.totalIntensity + IntensityOrZero(m),
   length |-> acc.length + 1]

\* moods.forEach(...) over moods[i..]
RECURSIVE ForEachMood(_, _, _)
ForEachMood(moods, i, acc) ==
  IF i > Len(moods) THEN acc
  ELSE ForEachMood(moods, i + 1, Accumulate(acc, moods[i]))

\* The entries of a counts object with entry e put after every entry whose
\* count is not less than e's: .sort(([, a], [, b]) => b - a) is stable.
RECURSIVE InsertByCountDesc(_, _)
InsertByCountDesc(sorted, e) ==
  IF sorted = << >> THEN <<e>>
  ELSE IF Head(sorted)[2] < e[2] THEN <<e>> \o sorted
  ELSE <<Head(sorted)>> \o InsertByCountDesc(Tail(sorted), e)

RECURSIVE SortByCountDesc(_)
SortByCountDesc(entries) ==
  IF entries = << >> THEN << >>
  ELSE InsertByCountDesc(SortByCountDesc(SubSeq(entries, 1, Len(entries) - 1)),
                         entries[Len(entries)])

\* Object.entries(moodCounts).sort(...)[0]?.[0] || "neutral"
DominantMood(counts) ==
  IF counts = << >> \/ SortByCountDesc(counts)[1][1] = ""
    THEN "neutral"
    ELSE SortByCountDesc(counts)[1][1]

\* habits.slice(0, 3).map(h => ({ id: h.id, name: h.name }))
TopHabits(hs) ==
  [i \in 1..(IF Len(hs) < 3 THEN Len(hs) ELSE 3) |->
     [id |-> hs[i].id, name |-> hs[i].name]]

\* The template with the count of all the entries tracked so far by anyone.
SummaryTextCountsAll(period, dominantMood, averageMoodScore, length) ==
  <<"During this ", period, ", your dominant mood was ", dominantMood,
    " with an average intensity of ", averageMoodScore,
    "/10. You tracked ", Len(moodHistory), " mood entries.">>

\* The template string of the insights column, as its pieces.
SummaryText(period, dominantMood, averageMoodScore, length) ==
  <<"During this ", period, ", your dominant mood was ", dominantMood,
    " with an average intensity of ", averageMoodScore,
    "/10. You tracked ", length, " mood entries.">>

\* What generateInsights computes from the loop's accumulators.
Aggregate(acc) ==
  [averageMoodScore |-> toFixed2(acc.totalIntensity, acc.length),
   dominantMood |-> DominantMood(acc.moodCounts),
   moodDistribution |-> acc.moodCounts]

\* const insight = { ... }
InsightOf(userId, period, periodStart, periodEnd, moods, hs) ==
  LET a == Aggregate(ForEachMood(moods, 1, EmptyLoop)) IN
    [userId |-> userId, period |-> period,
     periodStart |-> periodStart, periodEnd |-> periodEnd,
     averageMoodScore |-> a.averageMoodScore,
     dominantMood |-> a.dominantMood,
     moodDistribution |-> a.moodDistribution,
     topHabitsCorrelation |-> TopHabits(hs),
     insights |-> SummaryText(period, a.dominantMood, a.averageMoodScore,
                              Len(moods))]

\* decimal("averageMoodScore", { precision: 3, scale: 2 }): one digit before
\* the point.  The server rejects a value out of range (strict SQL mode).
DecimalFits(fixed) == fixed[1] <= 9

NoMoodData == "BAD_REQUEST: No mood data available for this period"

OutOfRange == "Out of range value for column 'averageMoodScore'"

\* insights.generateInsights
GenerateInsights(userId, period, periodStart, periodEnd) ==
  LET moods == getMoodHistoryByDateRange(userId, periodStart, periodEnd)
      hs == getHabitsByUser(userId)
      insight == InsightOf(userId, period, periodStart, periodEnd, moods, hs)
      op == "insights.generateInsights"
  IN
    /\ IF Len(moods) = 0
         THEN /\ lastOp' = Outcome(op, NoMoodData, FALSE)
              /\ UNCHANGED moodInsights
         ELSE IF ~dbAvailable
           THEN /\ lastOp' = Outcome(op, DbError, FALSE)
                /\ UNCHANGED moodInsights
           ELSE IF ~DecimalFits(insight.averageMoodScore)
             THEN /\ lastOp' = Outcome(op, OutOfRange, FALSE)
                  /\ UNCHANGED moodInsights
             ELSE /\ Len(moodInsights) < MaxInsights
                  /\ moodInsights' =
                       Append(moodInsights,
                              [id |-> NextId(moodInsights)] @@ insight)
                  /\ lastOp' = Outcome(op, "ok", FALSE)
    /\ UNCHANGED <<dbAvailable, now, moodHistory, habitCompletions, inFlight,
                   staleWrite, habits, loop, journalVars, page>>

\* The instants moods are recorded at before insights are asked for: the
\* first millisecond of the first day and of the second.
DayStarts == {0, MsPerDay}

\* The periods generateInsights is asked for: both days, and the second day.
Windows == {<<0, 2 * MsPerDay - 1>>, <<MsPerDay, 2 * MsPerDay - 1>>}

InputPeriods == {"week", "year"}

\* The moods recorded before insights are asked for, notes left out.
PlainPayloads ==
  { [mood |-> "good", moodIntensity |-> 7, notes |-> Undefined],
    [mood |-> "sad", moodIntensity |-> 3, notes |-> Undefined] }

DoMoodRecordAtDayStart ==
  \E u \in Users, t \in DayStarts, p \in PlainPayloads : MoodRecord(u, t, p)

\* The first insight of the store is asked for.
DoGenerateInsights ==
  /\ moodInsights = << >>
  /\ \E u \in Users, period \in InputPeriods, w \in Windows :
       GenerateInsights(u, period, w[1], w[2])

NextInsights == DoMoodRecordAtDayStart \/ DoGenerateInsights

\* Moods are recorded and insights generated, one procedure at a time.
SpecInsights == Init /\ [][NextInsights]_vars

(* ------------------- the aggregation loop, row by row ------------------- *)

\* The rows the loop is followed over.
LoopRows ==
  { [mood |-> "good", moodIntensity |-> 1],
    [mood |-> "sad", moodIntensity |-> 2],
    [mood |-> "", moodIntensity |-> 1] }

\* One more row of the list generateInsights read goes through the loop body.
LoopStep(m) ==
  /\ loop.length < MaxMoods
  /\ loop' = Accumulate(loop, m)
  /\ UNCHANGED <<dbAvailable, now, moodHistory, habitCompletions, lastOp,
                 inFlight, staleWrite, habits, moodInsights, journalVars, page>>

NextLoop == \E m \in LoopRows : LoopStep(m)

\* generateInsights' loop over a list of mood rows of any length up to
\* MaxMoods; after each row, Aggregate(loop) is what the procedure computes
\* from the list read so far.
SpecLoop == Init /\ [][NextLoop]_vars

(* ------------------- claims about insights.generateInsights ------------- *)

\* The mood rows of user u dated within [from, to].
RowsInPeriod(u, from, to) ==
  { i \in 1..Len(moodHistory) :
      /\ moodHistory[i].userId = u
      /\ moodHistory[i].date >= from
      /\ moodHistory[i].date <= to }

\* How many of user u's rows within [from, to] have category c.
CountOf(u, from, to, c) ==
  Cardinality({ i \in RowsInPeriod(u, from, to) : moodHistory[i].mood = c })

\* A generateInsights call has just returned the row it stored.
Generated == lastOp' = Outcome("insights.generateInsights", "ok", FALSE)

\* The row a call has just stored.
NewInsight == moodInsights'[Len(moodInsights')]

\* C6: generateInsights over a period in which the user has no mood record is
\* rejected with "No mood data available for this period" and leaves the
\* insights table as it was.
C6_EmptyPeriodRejected ==
  [][ \A u \in Users, period \in InputPeriods, w \in Windows :
        ( /\ RowsInPeriod(u, w[1], w[2]) = {}
          /\ GenerateInsights(u, period, w[1], w[2]) )
        => /\ lastOp'.result = NoMoodData
           /\ moodInsights' = moodInsights ]_vars

\* A call was rejected for a period without rows while the same user has a
\* row outside the period.
C6_RejectedWithRowsElsewhere ==
  /\ lastOp = Outcome("insights.generateInsights", NoMoodData, FALSE)
  /\ dbAvailable
  /\ moodInsights = << >>
  /\ \E u \in Users :
       /\ RowsInPeriod(u, MsPerDay, 2 * MsPerDay - 1) = {}
       /\ RowsInPeriod(u, 0, MsPerDay - 1) # {}
       /\ \A v \in Users \ {u} : RowsInPeriod(v, 0, 2 * MsPerDay - 1) = {}

\* C7: the stored dominant category has the greatest count, and of the
\* categories with the greatest count it is the first in the order
\* excellent, good, neutral, sad, terrible.
C7_DominantIsFirstDeclaredMaximum ==
  [][ \A u \in Users, period \in InputPeriods, w \in Windows :
        (Generated /\ GenerateInsights(u, period, w[1], w[2]))
        => \E k \in 1..Len(MoodEnum) :
             /\ NewInsight.dominantMood = MoodEnum[k]
             /\ \A j \in 1..Len(MoodEnum) :
                  /\ CountOf(u, w[1], w[2], MoodEnum[j])
                       <= CountOf(u, w[1], w[2], MoodEnum[k])
                  /\ j < k => CountOf(u, w[1], w[2], MoodEnum[j])
                                < CountOf(u, w[1], w[2], MoodEnum[k]) ]_vars

\* C8: the stored distribution has an entry for each of the five categories,
\* equal to the number of the period's rows of that category, 0 included.
C8_DistributionHasAllFive ==
  [][ \A u \in Users, period \in InputPeriods, w \in Windows :
        (Generated /\ GenerateInsights(u, period, w[1], w[2]))
        => \A c \in MoodSet :
             \E i \in 1..Len(NewInsight.moodDistribution) :
               NewInsight.moodDistribution[i]
                 = <<c, CountOf(u, w[1], w[2], c)>> ]_vars

\* round(100 * p / q), halves away from zero, for p >= 0 and q > 0.
RoundHalfAwayHundredths(p, q) == (200 * p + q) \div (2 * q)

\* C9: the average score is round(100 * sum / count) hundredths, written
\* with two decimals.
C9_AverageRoundsHalfAway ==
  loop.length > 0 =>
    Aggregate(loop).averageMoodScore
      = FixedString(RoundHalfAwayHundredths(loop.totalIntensity, loop.length))

\* C10: the stored summary is the template filled with the requested period,
\* the dominant category and average of the same row, and the number of
\* rows aggregated.
C10_SummaryMatchesRow ==
  [][ \A u \in Users, period \in InputPeriods, w \in Windows :
        (Generated /\ GenerateInsights(u, period, w[1], w[2]))
        => NewInsight.insights =
             <<"During this ", period, ", your dominant mood was ",
               NewInsight.dominantMood, " with an average intensity of ",
               NewInsight.averageMoodScore, "/10. You tracked ",
               Cardinality(RowsInPeriod(u, w[1], w[2])),
               " mood entries.">> ]_vars

\* A summary was stored for a year's period that covers one of the two rows
\* recorded.
C10_SummaryOverPartOfTheRows ==
  /\ lastOp = Outcome("insights.generateInsights", "ok", FALSE)
  /\ Len(moodInsights) > 0
  /\ Len(moodHistory) = 2
  /\ moodInsights[Len(moodInsights)].period = "year"
  /\ moodInsights[Len(moodInsights)].insights[8] = 1

(* ------------------------------- habits --------------------------------- *)

\* db.update(t).set(updates) with no defined value at all: drizzle throws.
NoValuesToSet == "No values to set"

\* The object updateHabit hands to .set() has a defined value.
HasValues(updates) == \E f \in DOMAIN updates : updates[f] # Undefined

\* db.insert(habits).values(habit): isActive and createdAt take their defaults.
createHabit(table, userId, name, clock) ==
  Append(table, [id |-> NextId(table), userId |-> userId, name |-> name,
                 isActive |-> 1, createdAt |-> clock])

\* db.update(habits).set(updates).where(eq(habits.id, id))
updateHabit(table, id, updates) == UpdateById(table, id, updates)

\* { isActive: 1 }
ArchiveSetActive == [isActive |-> Given(1)]

\* { isActive: 0 }
ArchiveSet == [isActive |-> Given(0)]

\* habits.create
HabitCreate(userId, name) ==
  /\ IF ~dbAvailable
       THEN /\ lastOp' = Outcome("habits.create", DbError, FALSE)
            /\ UNCHANGED habits
       ELSE /\ Len(habits) < MaxHabits
            /\ habits' = createHabit(habits, userId, name, now)
            /\ lastOp' = Outcome("habits.create", "ok", FALSE)
  /\ UNCHANGED <<dbAvailable, now, moodHistory, habitCompletions, inFlight,
                 staleWrite, moodInsights, loop, journalVars, page>>

\* habits.update; of the optional columns the name stands for all four.
HabitUpdate(userId, id, name) ==
  /\ IF ~dbAvailable
       THEN /\ lastOp' = Outcome("habits.update", DbError, FALSE)
            /\ UNCHANGED habits
       ELSE IF ~HasValues([name |-> name])
         THEN /\ lastOp' = Outcome("habits.update", NoValuesToSet, FALSE)
              /\ UNCHANGED habits
         ELSE /\ habits' = updateHabit(habits, id, [name |-> name])
              /\ lastOp' = Outcome("habits.update", "ok", FALSE)
  /\ UNCHANGED <<dbAvailable, now, moodHistory, habitCompletions, inFlight,
                 staleWrite, moodInsights, loop, journalVars, page>>

\* habits.archive
HabitArchive(userId, id) ==
  /\ IF ~dbAvailable
       THEN /\ lastOp' = Outcome("habits.archive", DbError, FALSE)
            /\ UNCHANGED habits
       ELSE /\ habits' = updateHabit(habits, id, ArchiveSet)
            /\ lastOp' = Outcome("habits.archive", "ok", FALSE)
  /\ UNCHANGED <<dbAvailable, now, moodHistory, habitCompletions, inFlight,
                 staleWrite, moodInsights, loop, journalVars, page>>

\* The ids a caller may name: every id the table can hold.
HabitIdInputs == 1..MaxHabits

\* The names given to habits.update: none, or a new one.
RenameInputs == {Undefined, Some("walk")}

DoHabitCreate == \E u \in Users : HabitCreate(u, "run")

\* Renaming is followed on the first habit.
DoHabitUpdate == \E u \in Users, name \in RenameInputs : HabitUpdate(u, 1, name)

DoHabitArchive == \E u \in Users, id \in HabitIdInputs : HabitArchive(u, id)

\* The first user ticks the first habit today.
DoHabitToggleToday == \E c \in BOOLEAN : HabitToggle(1, 1, now, c)

NextHabits == DoHabitCreate \/ DoHabitUpdate \/ DoHabitArchive \/ DoHabitToggleToday

\* Habits are created, renamed, archived and ticked, one procedure at a time.
SpecHabits == Init /\ [][NextHabits]_vars

\* The first user records one mood.
DoMoodRecordOnce ==
  MoodRecord(1, 0, [mood |-> "good", moodIntensity |-> 7, notes |-> Undefined])

\* The first user asks for the week's insights.
DoGenerateWeek == GenerateInsights(1, "week", 0, 2 * MsPerDay - 1)

NextTopHabits == DoHabitCreate \/ DoHabitArchive \/ DoMoodRecordOnce \/ DoGenerateWeek

\* Habits are created and archived, a mood is recorded and the week's
\* insights generated, one procedure at a time.
SpecTopHabits == Init /\ [][NextTopHabits]_vars

(* --------------------------- claims about habits ------------------------ *)

\* The positions in the habits table of user u's active habits.
ActiveOwn(u) ==
  { i \in 1..Len(habits) : habits[i].userId = u /\ habits[i].isActive = 1 }

\* The position of the k-th of user u's active habits.
KthActiveOwn(u, k) ==
  CHOOSE i \in ActiveOwn(u) :
    Cardinality({ j \in ActiveOwn(u) : j < i }) = k - 1

\* The smaller of two numbers.
Min(a, b) == IF a < b THEN a ELSE b

C12_ArchiveIsSoftAndFinal ==
  [][ /\ \A u \in Users, id \in HabitIdInputs :
           (lastOp'.result = "ok" /\ HabitArchive(u, id))
           => /\ habitCompletions' = habitCompletions
              /\ Len(habits') = Len(habits)
              /\ \A i \in 1..Len(habits) :
                   habits[i].id = id
                   => /\ habits'[i].id = id
                      /\ habits'[i].isActive = 0
                      /\ \A k \in 1..Len(getHabitsByUser(habits[i].userId)') :
                           (getHabitsByUser(habits[i].userId)')[k].id # id
      /\ \A i \in 1..Len(habits) :
           habits[i].isActive = 0
           => /\ Len(habits') >= i
              /\ habits'[i].id = habits[i].id
              /\ habits'[i].isActive = 0
              /\ \A k \in 1..Len(getHabitsByUser(habits[i].userId)') :
                   (getHabitsByUser(habits[i].userId)')[k].id # habits[i].id
    ]_vars

\* A habit that has a completion was archived by its owner.
C12_ArchivedWithCompletions ==
  /\ lastOp = Outcome("habits.archive", "ok", FALSE)
  /\ Len(habits) >= 1
  /\ habits[1].userId = 1
  /\ habits[1].isActive = 0
  /\ Len(habitCompletions) = 1
  /\ habitCompletions[1].habitId = 1

\* C17: a user's habits.update or habits.archive leaves every habit of
\* another user as it was.
C17_OthersHabitsUntouched ==
  [][ \A u \in Users :
        ( \/ \E id \in HabitIdInputs : HabitArchive(u, id)
          \/ \E name \in RenameInputs : HabitUpdate(u, 1, name) )
        => \A i \in 1..Len(habits) :
             habits[i].userId # u => habits'[i] = habits[i] ]_vars

(* ---------------------- claims about unavailable storage ---------------- *)

\* Every table of the store.
Stored == <<moodHistory, habitCompletions, habits, moodInsights, diaryEntries,
            mediaFiles>>

\* C13: with the storage unavailable, mood.record and habitCompletions.toggle
\* end in the "Database not available" error, never in success, and leave
\* every stored record as it was.
C13_UpsertsFailWithoutStorage ==
  [][ ~dbAvailable
      => /\ \A u \in Users, t \in Instants, p \in MoodPayloads :
              MoodRecord(u, t, p)
              => /\ lastOp'.result # "ok"
                 /\ lastOp'.result = "Database not available"
                 /\ Stored' = Stored
         /\ \A u \in Users, h \in HabitIds, t \in Instants, c \in BOOLEAN :
              HabitToggle(u, h, t, c)
              => /\ lastOp'.result # "ok"
                 /\ lastOp'.result = "Database not available"
                 /\ Stored' = Stored ]_vars

\* A toggle has failed for want of storage, and nothing is stored.
C13_ToggleFailed ==
  /\ ~dbAvailable
  /\ lastOp = Outcome("habitCompletions.toggle", "Database not available", FALSE)
  /\ Stored = << << >>, << >>, << >>, << >>, << >>, << >> >>

\* C15: with the storage unavailable, generateInsights ends in the
\* "Database not available" failure and never in the "No mood data available
\* for this period" rejection.
C15_InsightsFailHardWithoutStorage ==
  [][ \A u \in Users, period \in InputPeriods, w \in Windows :
        (~dbAvailable /\ GenerateInsights(u, period, w[1], w[2]))
        => /\ lastOp'.result = DbError
           /\ lastOp'.result # NoMoodData ]_vars

(* -------------------------------- diary --------------------------------- *)

\* The where-clause of getDiaryEntryByDate.
DiaryDayMatch(userId, date, r) ==
  /\ r.userId = userId
  /\ r.date >= startOfDay(date)
  /\ r.date <= endOfDay(date)

\* getDiaryEntryByDate: <<row>>, or << >> for undefined.
getDiaryEntryByDate(userId, date) ==
  IF ~dbAvailable THEN Undefined
  ELSE Limit1(SelectSeq(diaryEntries, LAMBDA r : DiaryDayMatch(userId, date, r)))

\* db.insert(diaryEntries).values(entry): a column without a value is NULL.
createDiaryEntry(table, userId, title, content, date) ==
  Append(table, [id |-> NextId(table), userId |-> userId, title |-> title,
                 content |-> content, date |-> date])

\* db.update(diaryEntries).set(updates).where(eq(diaryEntries.id, id))
updateDiaryEntry(table, id, updates) == UpdateById(table, id, updates)

Forbidden == "FORBIDDEN"

\* diary.create
DiaryCreate(userId, title, content, date) ==
  /\ IF ~dbAvailable
       THEN /\ lastOp' = Outcome("diary.create", DbError, FALSE)
            /\ UNCHANGED diaryEntries
       ELSE /\ Len(diaryEntries) < MaxEntries
            /\ diaryEntries' =
                 createDiaryEntry(diaryEntries, userId, title, content, date)
            /\ lastOp' = Outcome("diary.create", "ok", FALSE)
  /\ UNCHANGED <<dbAvailable, now, moodHistory, habitCompletions, inFlight,
                 staleWrite, insightVars, mediaFiles, page>>

\* diary.update
DiaryUpdate(userId, id, title, content) ==
  LET entry == getDiaryEntryByDate(userId, now)
      updates == [title |-> GivenOptional(title),
                  content |-> GivenOptional(content)]
  IN
    /\ IF entry = Undefined \/ entry[1].id # id
         THEN /\ lastOp' = Outcome("diary.update", Forbidden, FALSE)
              /\ UNCHANGED diaryEntries
         ELSE IF ~dbAvailable
           THEN /\ lastOp' = Outcome("diary.update", DbError, FALSE)
                /\ UNCHANGED diaryEntries
           ELSE IF ~HasValues(updates)
             THEN /\ lastOp' = Outcome("diary.update", NoValuesToSet, FALSE)
                  /\ UNCHANGED diaryEntries
             ELSE /\ diaryEntries' = updateDiaryEntry(diaryEntries, id, updates)
                  /\ lastOp' = Outcome("diary.update", "ok", TRUE)
    /\ UNCHANGED <<dbAvailable, now, moodHistory, habitCompletions, inFlight,
                   staleWrite, insightVars, mediaFiles, page>>

\* The ids a caller may name: every id the table can hold.
EntryIdInputs == 1..MaxEntries

\* The content given to diary.update: none, or a new text.
ContentInputs == {Undefined, Some("d")}

DoDiaryCreate ==
  \E u \in Users, t \in DayStarts : DiaryCreate(u, Undefined, Some("c"), t)

DoDiaryUpdate ==
  \E u \in Users, id \in EntryIdInputs, content \in ContentInputs :
    DiaryUpdate(u, id, Undefined, content)

NextDiary == DoDiaryCreate \/ DoDiaryUpdate

\* Diary entries are written and edited, one procedure at a time.
SpecDiary == Init /\ [][NextDiary]_vars

\* Entry id is stored, is user u's, and is dated on the server's current day.
OwnedToday(u, id) ==
  \E i \in 1..Len(diaryEntries) :
    /\ diaryEntries[i].id = id
    /\ diaryEntries[i].userId = u
    /\ LocalDay(diaryEntries[i].date) = LocalDay(now)

\* Entry id is stored, and is another user's or dated on another day.
ForeignOrOtherDay(u, id) ==
  \E i \in 1..Len(diaryEntries) :
    /\ diaryEntries[i].id = id
    /\ \/ diaryEntries[i].userId # u
       \/ LocalDay(diaryEntries[i].date) # LocalDay(now)

\* C16: diary.update is rejected with FORBIDDEN, changing nothing, when the
\* entry is another user's or another day's, and succeeds with the new
\* content stored when the entry is the caller's and dated today, however
\* many entries the caller has today.
C16_UpdateExactlyOwnToday ==
  [][ \A u \in Users, id \in EntryIdInputs :
        DiaryUpdate(u, id, Undefined, Some("d"))
        => /\ ForeignOrOtherDay(u, id)
                => lastOp'.result = Forbidden /\ diaryEntries' = diaryEntries
           /\ OwnedToday(u, id)
                => /\ lastOp'.result = "ok"
                   /\ \A i \in 1..Len(diaryEntries) :
                        diaryEntries[i].id = id
                          => diaryEntries'[i].content = Some("d") ]_vars

(* --------------------- claims about rows without category --------------- *)

\* The count a counts object holds for key, 0 when it has no such key.
CountFor(counts, key) ==
  IF KeyIndex(counts, key) = 0 THEN 0 ELSE counts[KeyIndex(counts, key)][2]

\* The sum of the counts of entries i.. of a counts object.
RECURSIVE SumCounts(_, _)
SumCounts(counts, i) ==
  IF i > Len(counts) THEN 0 ELSE counts[i][2] + SumCounts(counts, i + 1)

\* C20: a row without category goes through the aggregation like any other:
\* it adds one to the "unknown" bucket and to no other, the buckets sum to
\* the number of rows aggregated, and a dominant mood and an average come
\* out.
C20_MissingCategoryCountsAsUnknown ==
  [][ \A m \in LoopRows :
        LoopStep(m)
        => /\ SumCounts(loop'.moodCounts, 1) = loop'.length
           /\ CountFor(loop'.moodCounts, "") = 0
           /\ Aggregate(loop').dominantMood \in MoodSet \cup {"unknown"}
           /\ Aggregate(loop').averageMoodScore[2] = "."
           /\ m.mood = ""
                => \A key \in MoodSet \cup {"unknown"} :
                     CountFor(loop'.moodCounts, key)
                       = CountFor(loop.moodCounts, key)
                           + (IF key = "unknown" THEN 1 ELSE 0) ]_vars

\* Rows without category were aggregated between rows that have one.
C20_UnknownAmongKnown ==
  /\ loop.length = 4
  /\ Len(loop.moodCounts) = 3
  /\ loop.moodCounts[2] = <<"unknown", 2>>

(* ------------------------------- queries -------------------------------- *)

\* .limit(limit).offset(offset)
LimitOffset(rows, limit, offset) ==
  SubSeq(rows, offset + 1,
         IF offset + limit < Len(rows) THEN offset + limit ELSE Len(rows))

\* getDiaryEntries
getDiaryEntries(userId, limit, offset) ==
  IF ~dbAvailable THEN << >>
  ELSE LimitOffset(
         OrderByDateDesc(SelectSeq(diaryEntries, LAMBDA r : r.userId = userId)),
         limit, offset)

\* getMoodHistoryByDate: <<row>>, or << >> for undefined.
getMoodHistoryByDate(userId, date) ==
  IF ~dbAvailable THEN Undefined
  ELSE Limit1(SelectSeq(moodHistory, LAMBDA r : MoodDayMatch(userId, date, r)))

\* getHabitCompletionsByDate
getHabitCompletionsByDate(userId, date) ==
  IF ~dbAvailable THEN << >>
  ELSE SelectSeq(habitCompletions,
                 LAMBDA r : /\ r.userId = userId
                            /\ r.date >= startOfDay(date)
                            /\ r.date <= endOfDay(date))

\* The rows of seq with row r put after every row dated not later than r.
RECURSIVE InsertByDateAsc(_, _)
InsertByDateAsc(sorted, r) ==
  IF sorted = << >> THEN <<r>>
  ELSE IF Head(sorted).date > r.date THEN <<r>> \o sorted
  ELSE <<Head(sorted)>> \o InsertByDateAsc(Tail(sorted), r)

\* .orderBy(habitCompletions.date); rows of one date stay in table order.
RECURSIVE OrderByDateAsc(_)
OrderByDateAsc(rows) ==
  IF rows = << >> THEN << >>
  ELSE InsertByDateAsc(OrderByDateAsc(SubSeq(rows, 1, Len(rows) - 1)),
                       rows[Len(rows)])

\* getHabitCompletionsByHabitAndDateRange
getHabitCompletionsByHabitAndDateRange(habitId, startDate, endDate) ==
  IF ~dbAvailable THEN << >>
  ELSE OrderByDateAsc(
         SelectSeq(habitCompletions,
                   LAMBDA r : /\ r.habitId = habitId
                              /\ r.date >= startDate
                              /\ r.date <= endDate))

\* getMediaFilesByDiaryEntry
getMediaFilesByDiaryEntry(diaryEntryId) ==
  IF ~dbAvailable THEN << >>
  ELSE SelectSeq(mediaFiles, LAMBDA r : r.diaryEntryId = Some(diaryEntryId))

\* The rows of a table, last row first.
RECURSIVE Reversed(_)
Reversed(rows) ==
  IF rows = << >> THEN << >>
  ELSE <<rows[Len(rows)]>> \o Reversed(SubSeq(rows, 1, Len(rows) - 1))

\* getMediaFilesByUser: newest upload first (uploads are stamped in id order).
getMediaFilesByUser(userId, limit) ==
  IF ~dbAvailable THEN << >>
  ELSE LimitOffset(
         Reversed(SelectSeq(mediaFiles, LAMBDA r : r.userId = userId)),
         limit, 0)

\* getMoodInsightsByPeriod: <<row>>, or << >> for undefined.
getMoodInsightsByPeriod(userId, period, periodStart, periodEnd) ==
  IF ~dbAvailable THEN Undefined
  ELSE Limit1(SelectSeq(moodInsights,
                        LAMBDA r : /\ r.userId = userId
                                   /\ r.period = period
                                   /\ r.periodStart >= periodStart
                                   /\ r.periodEnd <= periodEnd))

\* What the caller of a query sees: the rows (or the one row) returned.
Answer(op, caller, rows) ==
  [op |-> op, result |-> "ok", found |-> FALSE, caller |-> caller, rows |-> rows]

\* A query that throws when the storage is unavailable.
QueryThrowingWhenUnavailable(op, caller, rows) ==
  /\ lastOp' = IF dbAvailable THEN Answer(op, caller, rows)
               ELSE Outcome(op, DbError, FALSE)
  /\ UNCHANGED <<dbAvailable, now, moodHistory, habitCompletions, inFlight,
                 staleWrite, insightVars, journalVars, page>>

\* A query procedure: it returns what the storage function returns.
Query(op, caller, rows) ==
  /\ lastOp' = Answer(op, caller, rows)
  /\ UNCHANGED <<dbAvailable, now, moodHistory, habitCompletions, inFlight,
                 staleWrite, insightVars, journalVars, page>>

DiaryList(u, limit, offset) ==
  Query("diary.list", u, getDiaryEntries(u, limit, offset))

DiaryGetByDate(u, date) ==
  Query("diary.getByDate", u, getDiaryEntryByDate(u, date))

MediaListByUser(u, limit) ==
  Query("media.listByUser", u, getMediaFilesByUser(u, limit))

MediaListByEntry(u, diaryEntryId) ==
  Query("media.listByEntry", u, getMediaFilesByDiaryEntry(diaryEntryId))

HabitsList(u) == Query("habits.list", u, getHabitsByUser(u))

CompletionsGetByDate(u, date) ==
  Query("habitCompletions.getByDate", u, getHabitCompletionsByDate(u, date))

CompletionsGetByHabitAndRange(u, habitId, startDate, endDate) ==
  Query("habitCompletions.getByHabitAndRange", u,
        getHabitCompletionsByHabitAndDateRange(habitId, startDate, endDate))

MoodGetByDate(u, date) ==
  Query("mood.getByDate", u, getMoodHistoryByDate(u, date))

MoodGetByRange(u, startDate, endDate) ==
  Query("mood.getByRange", u, getMoodHistoryByDateRange(u, startDate, endDate))

InsightsGetByPeriod(u, period, periodStart, periodEnd) ==
  Query("insights.getByPeriod", u,
        getMoodInsightsByPeriod(u, period, periodStart, periodEnd))

(* -------------------------------- media --------------------------------- *)

UploadFailed == "INTERNAL_SERVER_ERROR: Failed to upload media"

\* db.insert(mediaFiles).values(file)
createMediaFile(table, userId, diaryEntryId, fileName, clock) ==
  Append(table, [id |-> NextId(table), userId |-> userId,
                 diaryEntryId |-> diaryEntryId, fileName |-> fileName,
                 uploadedAt |-> clock])

\* media.upload; stored tells whether storagePut put the blob: whatever is
\* thrown inside the try block comes out as the one upload failure.
MediaUpload(userId, fileName, diaryEntryId, stored) ==
  /\ IF ~stored \/ ~dbAvailable
       THEN /\ lastOp' = Outcome("media.upload", UploadFailed, FALSE)
            /\ UNCHANGED mediaFiles
       ELSE /\ Len(mediaFiles) < MaxMedia
            /\ mediaFiles' =
                 createMediaFile(mediaFiles, userId, diaryEntryId, fileName, now)
            /\ lastOp' = Outcome("media.upload", "ok", FALSE)
  /\ UNCHANGED <<dbAvailable, now, moodHistory, habitCompletions, inFlight,
                 staleWrite, insightVars, diaryEntries, page>>

(* ------------------------- the store being queried ---------------------- *)

\* Either user ticks the first habit today.
DoHabitToggleByAnyone == \E u \in Users : HabitToggle(u, 1, now, TRUE)

\* The first user creates a habit.
DoHabitCreateOwn == HabitCreate(1, "run")

\* The first user writes a diary entry for today.
DoDiaryCreateToday == DiaryCreate(1, Undefined, Some("c"), now)

\* Either user uploads a file for the first diary entry.
DoMediaUpload ==
  \E u \in Users, stored \in BOOLEAN : MediaUpload(u, "f", Some(1), stored)

\* The limit and offset given to a listing: the defaults, and the second row.
PageInputs == {<<50, 0>>, <<1, 1>>}

DoDiaryList == \E u \in Users, pg \in PageInputs : DiaryList(u, pg[1], pg[2])

DoDiaryGetByDate == \E u \in Users : DiaryGetByDate(u, now)

DoMediaListByUser == \E u \in Users : MediaListByUser(u, 100)

DoMediaListByEntry == \E u \in Users : MediaListByEntry(u, 1)

DoHabitsList == \E u \in Users : HabitsList(u)

DoCompletionsGetByDate == \E u \in Users : CompletionsGetByDate(u, now)

DoCompletionsGetByHabitAndRange ==
  \E u \in Users : CompletionsGetByHabitAndRange(u, 1, 0, 2 * MsPerDay - 1)

DoMoodGetByDate == \E u \in Users : MoodGetByDate(u, now)

DoMoodGetByRange == \E u \in Users : MoodGetByRange(u, 0, 2 * MsPerDay - 1)

DoInsightsGetByPeriod ==
  \E u \in Users : InsightsGetByPeriod(u, "week", 0, 2 * MsPerDay - 1)

NextQueries ==
  \/ DoMoodRecordOnce
  \/ DoHabitToggleByAnyone
  \/ DoHabitCreateOwn
  \/ DoDiaryCreateToday
  \/ DoMediaUpload
  \/ DoDiaryList
  \/ DoDiaryGetByDate
  \/ DoMediaListByUser
  \/ DoMediaListByEntry
  \/ DoHabitsList
  \/ DoCompletionsGetByDate
  \/ DoCompletionsGetByHabitAndRange
  \/ DoMoodGetByDate
  \/ DoMoodGetByRange
  \/ DoInsightsGetByPeriod

\* Records are written and every query is asked, one procedure at a time.
SpecQueries == Init /\ [][NextQueries]_vars

(* --------------------------- claims about queries ----------------------- *)

\* The last procedure was a query, and lastOp holds its answer.
Answered == "rows" \in DOMAIN lastOp

\* The queries that answer with what one of the storage reads returns.
ReadQueries ==
  {"mood.getByDate", "mood.getByRange", "habitCompletions.getByDate",
   "habits.list", "diary.getByDate", "insights.getByPeriod"}

\* What a read returns from an available storage with no matching record:
\* result.length > 0 ? result[0] : undefined of no rows, or the list of no
\* rows.
NotFound(op) ==
  IF op \in {"mood.getByDate", "diary.getByDate", "insights.getByPeriod"}
    THEN Limit1(<< >>)
    ELSE SelectSeq(<< >>, LAMBDA r : TRUE)

\* C14: what a read answers while the storage is unavailable differs from
\* what it answers when the storage is available and holds no matching
\* record.
C14_UnavailableDiffersFromNotFound ==
  (Answered /\ lastOp.op \in ReadQueries /\ ~dbAvailable)
  => lastOp.rows # NotFound(lastOp.op)

\* C18: every record a query returns is the caller's.
C18_AnswersHoldOwnRecordsOnly ==
  Answered => \A i \in 1..Len(lastOp.rows) : lastOp.rows[i].userId = lastOp.caller

\* The list-type queries.
ListQueries ==
  {"diary.list", "mood.getByRange", "habits.list", "habitCompletions.getByDate",
   "media.listByUser", "media.listByEntry"}

\* x is a sequence of at most n rows.
IsSequenceUpTo(x, n) == \E k \in 0..n : DOMAIN x = 1..k

DoMoodRecordOwn ==
  \E t \in DayStarts, p \in PlainPayloads : MoodRecord(1, t, p)

\* The first user asks for a week's insights, over one of the windows.
DoGenerateOwn == \E w \in Windows : GenerateInsights(1, "week", w[1], w[2])

NextLatest == DoMoodRecordOwn \/ DoGenerateOwn \/ DoInsightsGetByPeriod

\* Moods are recorded, insights generated again and again, and the stored
\* insight of the week asked for, one procedure at a time.
SpecLatest == Init /\ [][NextLatest]_vars

\* The ids of the stored insights that match what DoInsightsGetByPeriod asks
\* for user u.
MatchingInsights(u) ==
  { moodInsights[i].id : i \in
      { j \in 1..Len(moodInsights) :
          /\ moodInsights[j].userId = u
          /\ moodInsights[j].period = "week"
          /\ moodInsights[j].periodStart >= 0
          /\ moodInsights[j].periodEnd <= 2 * MsPerDay - 1 } }

\* C21: insights.getByPeriod returns, of the stored insights that match, the
\* one generated last.
C21_GetByPeriodReturnsLatest ==
  (Answered /\ lastOp.op = "insights.getByPeriod" /\ MatchingInsights(lastOp.caller) # {})
  => /\ lastOp.rows # << >>
     /\ \A id \in MatchingInsights(lastOp.caller) : lastOp.rows[1].id >= id

(* ------------------------------ InsightsPage ---------------------------- *)

\* The page's dates are counted in whole local days from 1 January of a year;
\* neither that year nor the next is a leap year.  A row of page.moods keeps
\* the local day of its date, its mood and its moodIntensity: the label of a
\* date depends on its local day alone.
MaxFetched == 2

DaysPerYear == 365

MonthLengths == <<31, 28, 31, 30, 31, 30, 31, 31, 30, 31, 30, 31>>

\* The month and the day of the month of the d-th day of a year, d from 0.
RECURSIVE MonthAndDay(_, _)
MonthAndDay(d, month) ==
  IF d < MonthLengths[month] THEN <<month, d + 1>>
  ELSE MonthAndDay(d - MonthLengths[month], month + 1)

\* new Date(m.date).toLocaleDateString("en-US", { month: "short", day: "numeric" })
toLocaleDateString(day) == MonthAndDay(day % DaysPerYear, 1)

\* const today = new Date(): 1 January of the second year.
Today == DaysPerYear

\* subDays(today, 7), subDays(today, 30), subDays(today, 365)
PeriodDays(selectedPeriod) ==
  IF selectedPeriod = "week" THEN 7
  ELSE IF selectedPeriod = "month" THEN 30
  ELSE DaysPerYear

\* startDate = startOfDay(subDays(today, n)), as a day
StartDay(selectedPeriod) == Today - PeriodDays(selectedPeriod)

\* const moodCounts = { excellent: 0, good: 0, neutral: 0, sad: 0, terrible: 0 }
ClientEmptyCounts ==
  <<<<"excellent", 0>>, <<"good", 0>>, <<"neutral", 0>>, <<"sad", 0>>,
    <<"terrible", 0>>>>

\* moods.forEach(m => { if (m.mood) moodCounts[m.mood]++; ... }) over moods[i..]
RECURSIVE ClientMoodCounts(_, _, _)
ClientMoodCounts(moods, i, counts) ==
  IF i > Len(moods) THEN counts
  ELSE ClientMoodCounts(moods, i + 1,
         IF moods[i].mood = "" THEN counts
         ELSE Increment(counts, moods[i].mood))

\* const dominantMood = Object.entries(moodCounts).sort(...)[0]?.[0] || "neutral"
ClientDominantMood(moods) ==
  DominantMood(ClientMoodCounts(moods, 1, ClientEmptyCounts))

\* The indices of the rows of moods whose label is the label of row i.
SameLabel(moods, i) ==
  { j \in 1..Len(moods) :
      toLocaleDateString(moods[j].day) = toLocaleDateString(moods[i].day) }

\* dailyData[date]: the sum of m.moodIntensity || 0 over the rows of the label.
RECURSIVE SumIntensity(_, _)
SumIntensity(moods, rows) ==
  IF rows = {} THEN 0
  ELSE LET j == CHOOSE k \in rows : TRUE IN
    IntensityOrZero(moods[j]) + SumIntensity(moods, rows \ {j})

\* The number of tenths that (p / q).toFixed(1) prints, for p >= 0 and q > 0;
\* on a tie the double that the division gave decides.
ToFixed1Tenths(p, q) ==
  LET lo == (10 * p) \div q
      rem == (10 * p) % q
  IN
    IF 2 * rem < q THEN lo
    ELSE IF 2 * rem > q THEN lo + 1
    ELSE IF DoubleDivisionError(p, q) < 0 THEN lo ELSE lo + 1

\* trendData: one point per label, in the order the labels first appear; the
\* intensity, in tenths, is parseFloat((sum / (count || 1)).toFixed(1)).
TrendData(moods) ==
  LET firsts == SelectSeq([i \in 1..Len(moods) |-> i],
                          LAMBDA i : \A j \in SameLabel(moods, i) : j >= i)
  IN [k \in 1..Len(firsts) |->
        [date |-> toLocaleDateString(moods[firsts[k]].day),
         rows |-> SameLabel(moods, firsts[k]),
         intensity |-> ToFixed1Tenths(
                         SumIntensity(moods, SameLabel(moods, firsts[k])),
                         Cardinality(SameLabel(moods, firsts[k])))]]

\* The rows of seq with row r put before the first row of an earlier day:
\* mood.getByRange answers by date, latest first.
RECURSIVE InsertByDayDesc(_, _)
InsertByDayDesc(sorted, r) ==
  IF sorted = << >> THEN <<r>>
  ELSE IF Head(sorted).day < r.day THEN <<r>> \o sorted
  ELSE <<Head(sorted)>> \o InsertByDayDesc(Tail(sorted), r)

\* setSelectedPeriod(p): the query is asked again for the new range; nothing
\* of it has arrived yet.
SelectPeriod(p) ==
  /\ p # page.selectedPeriod
  /\ page' = [selectedPeriod |-> p, moods |-> << >>]
  /\ UNCHANGED <<dbAvailable, now, moodHistory, habitCompletions, lastOp,
                 inFlight, staleWrite, insightVars, journalVars>>

\* moodQuery.data holds one more row of the range startDate..endDate.
FetchMood(day, m) ==
  /\ Len(page.moods) < MaxFetched
  /\ StartDay(page.selectedPeriod) <= day /\ day <= Today
  /\ page' = [page EXCEPT !.moods =
       InsertByDayDesc(@, [day |-> day, mood |-> m.mood,
                           moodIntensity |-> m.moodIntensity])]
  /\ UNCHANGED <<dbAvailable, now, moodHistory, habitCompletions, lastOp,
                 inFlight, staleWrite, insightVars, journalVars>>

\* The rows the range may hold: the first day of each range, yesterday, today.
FetchDays == { StartDay(p) : p \in PeriodEnum } \cup { Today - 1, Today }

FetchRows ==
  { [mood |-> "good", moodIntensity |-> 7],
    [mood |-> "sad", moodIntensity |-> 4] }

DoSelectPeriod == \E p \in PeriodEnum : SelectPeriod(p)

DoFetchMood == \E day \in FetchDays, m \in FetchRows : FetchMood(day, m)

NextPage == DoSelectPeriod \/ DoFetchMood

\* The insights page under any selected period and any list of up to
\* MaxFetched fetched moods of its range.
SpecPage == Init /\ [][NextPage]_vars

\* C22: the trend puts two fetched records into one bucket exactly when their
\* dates are on the same calendar day, and a bucket's value is the mean
\* intensity of its records to one decimal place (within half a tenth).
C22_TrendBucketsAreCalendarDays ==
  /\ \A i, j \in 1..Len(page.moods) :
       (j \in SameLabel(page.moods, i)) <=> (page.moods[i].day = page.moods[j].day)
  /\ \A k \in 1..Len(TrendData(page.moods)) :
       LET b == TrendData(page.moods)[k]
           sum == SumIntensity(page.moods, b.rows)
           n == Cardinality(b.rows)
       IN /\ 2 * (n * b.intensity - 10 * sum) <= n
          /\ 2 * (10 * sum - n * b.intensity) <= n

\* The count the page keeps for a category.
ClientCount(key) ==
  LET counts == ClientMoodCounts(page.moods, 1, ClientEmptyCounts)
  IN counts[KeyIndex(counts, key)][2]

\* C23: the page's counts have exactly the five categories as keys, the
\* dominant mood it shows is the first declared category among those of the
\* greatest count, and, for a list that is not empty, it is the dominant mood
\* that generateInsights computes from the same list.
C23_PageDominantIsServerDominant ==
  LET counts == ClientMoodCounts(page.moods, 1, ClientEmptyCounts)
      shown == ClientDominantMood(page.moods)
  IN
    /\ [i \in 1..Len(counts) |-> counts[i][1]] =
         [i \in 1..Len(ClientEmptyCounts) |-> ClientEmptyCounts[i][1]]
    /\ \A i \in 1..Len(counts) :
         /\ ClientCount(shown) >= counts[i][2]
         /\ counts[i][2] = ClientCount(shown) => KeyIndex(counts, shown) <= i
    /\ page.moods # << >> =>
         shown = DominantMood(ForEachMood(page.moods, 1, EmptyLoop).moodCounts)

(* ------------------ upserts over a store with duplicates ---------------- *)

\* The rows that may be stored beside the duplicates.
MaxStored == 1

\* The store has room for one more row.
RoomBesideDuplicates(table, grown) ==
  \/ Len(grown) = Len(table)
  \/ Len(moodHistory) + Len(habitCompletions) < 2 + 2 + MaxStored

\* mood_history after two requests of the first user for the first day have
\* both inserted (their lookups ran before either write): two rows of one
\* user and day.
DuplicateMoods ==
  { <<[id |-> 1, userId |-> 1, date |-> 0, mood |-> "good",
       moodIntensity |-> 7, notes |-> Some("a")],
      [id |-> 2, userId |-> 1, date |-> t, mood |-> "sad",
       moodIntensity |-> 3, notes |-> Null]>> : t \in {0, EndOfDayOffset} }

\* habit_completions after two toggles of one habit, user and day have both
\* inserted.
DuplicateCompletions ==
  { <<[id |-> 1, habitId |-> 1, userId |-> 1, date |-> 0, completed |-> 1,
       completedAt |-> Some(0), notes |-> Null],
      [id |-> 2, habitId |-> 1, userId |-> 1, date |-> t, completed |-> c,
       completedAt |-> IF c = 1 THEN Some(0) ELSE Null, notes |-> Null]>> :
      t \in {0, EndOfDayOffset}, c \in {0, 1} }

InitDuplicates ==
  /\ dbAvailable \in BOOLEAN
  /\ now = 0
  /\ moodHistory \in DuplicateMoods
  /\ habitCompletions \in DuplicateCompletions
  /\ lastOp = NoOp
  /\ inFlight = [q \in Requests |-> Idle]
  /\ staleWrite = FALSE
  /\ habits = << >>
  /\ moodInsights = << >>
  /\ loop = EmptyLoop
  /\ diaryEntries = << >>
  /\ mediaFiles = << >>
  /\ page = [selectedPeriod |-> "week", moods |-> << >>]

\* db.upsertMoodHistory(userId, date, mood, moodIntensity, notes), as
\* mood.record calls it with an input that passed validation.
UpsertMoodHistory(userId, date, p) ==
  LET grown == upsertMoodHistory(moodHistory, userId, date,
                                 p.mood, p.moodIntensity, p.notes)
      found == Len(MoodExisting(moodHistory, userId, date)) > 0
  IN
    /\ IF ~dbAvailable
         THEN /\ lastOp' = Outcome("mood.record", DbError, FALSE)
              /\ UNCHANGED moodHistory
         ELSE /\ RoomBesideDuplicates(moodHistory, grown)
              /\ moodHistory' = grown
              /\ lastOp' = Outcome("mood.record", "ok", found)
    /\ UNCHANGED <<dbAvailable, now, habitCompletions, inFlight, staleWrite,
                   insightVars, journalVars, page>>

\* db.upsertHabitCompletion(habitId, userId, date, completed), as
\* habitCompletions.toggle calls it.
UpsertHabitCompletion(userId, habitId, date, completed) ==
  LET grown == upsertHabitCompletion(habitCompletions, habitId, userId, date,
                                     completed, now)
      found == Len(HabitExisting(habitCompletions, habitId, userId, date)) > 0
  IN
    /\ IF ~dbAvailable
         THEN /\ lastOp' = Outcome("habitCompletions.toggle", DbError, FALSE)
              /\ UNCHANGED habitCompletions
         ELSE /\ RoomBesideDuplicates(habitCompletions, grown)
              /\ habitCompletions' = grown
              /\ lastOp' = Outcome("habitCompletions.toggle", "ok", found)
    /\ UNCHANGED <<dbAvailable, now, moodHistory, inFlight, staleWrite,
                   insightVars, journalVars, page>>

\* The instants the upserts are called with: the bounds of the duplicates'
\* day and the start of the next day.
UpsertInstants == {0, EndOfDayOffset, MsPerDay}

DoUpsertMoodHistory ==
  \E u \in Users, t \in UpsertInstants, p \in MoodPayloads : UpsertMoodHistory(u, t, p)

DoUpsertHabitCompletion ==
  \E u \in Users, h \in HabitIds, t \in UpsertInstants, c \in BOOLEAN :
    UpsertHabitCompletion(u, h, t, c)

NextDuplicates == DoUpsertMoodHistory \/ DoUpsertHabitCompletion

\* The upserts over a store that already holds two rows of one key and day.
SpecDuplicates == InitDuplicates /\ [][NextDuplicates]_vars

\* The indices of the mood rows of the user's day of date.
MoodMatches(userId, date) ==
  { i \in 1..Len(moodHistory) : MoodDayMatch(userId, date, moodHistory[i]) }

\* The indices of the completions of the habit on the user's day of date.
HabitMatches(habitId, userId, date) ==
  { i \in 1..Len(habitCompletions) :
      HabitDayMatch(habitId, userId, date, habitCompletions[i]) }

\* The least index of a set of indices that is not empty.
First(indices) == CHOOSE i \in indices : \A j \in indices : i <= j

\* C24: an upsert that finds more than one stored record of its key and day
\* gives its payload to the first of them alone: every other record stays as
\* it was, and no record is inserted or deleted.
C24_UpsertOverDuplicatesChangesTheFirst ==
  [][ /\ \A u \in Users, t \in UpsertInstants, p \in MoodPayloads :
           ( /\ dbAvailable
             /\ Cardinality(MoodMatches(u, t)) > 1
             /\ UpsertMoodHistory(u, t, p) )
           => LET k == First(MoodMatches(u, t)) IN
                /\ Len(moodHistory') = Len(moodHistory)
                /\ \A i \in 1..Len(moodHistory) \ {k} :
                     moodHistory'[i] = moodHistory[i]
                /\ moodHistory'[k] =
                     [moodHistory[k] EXCEPT
                        !.mood = p.mood, !.moodIntensity = p.moodIntensity,
                        !.notes = IF p.notes = Undefined THEN @ ELSE p.notes]
      /\ \A u \in Users, h \in HabitIds, t \in UpsertInstants, c \in BOOLEAN :
           ( /\ dbAvailable
             /\ Cardinality(HabitMatches(h, u, t)) > 1
             /\ UpsertHabitCompletion(u, h, t, c) )
           => LET k == First(HabitMatches(h, u, t)) IN
                /\ Len(habitCompletions') = Len(habitCompletions)
                /\ \A i \in 1..Len(habitCompletions) \ {k} :
                     habitCompletions'[i] = habitCompletions[i]
                /\ habitCompletions'[k] =
                     [habitCompletions[k] EXCEPT
                        !.completed = IF c THEN 1 ELSE 0,
                        !.completedAt = IF c THEN Some(now) ELSE Null]
    ]_vars

\* Both tables hold two rows of one key and day, an upsert has found one, and
\* the two rows now differ in what they hold.
C24_DuplicatesUpdatedOnce ==
  /\ lastOp.op = "mood.record" /\ lastOp.result = "ok" /\ lastOp.found
  /\ Cardinality(MoodMatches(1, 0)) = 2
  /\ moodHistory[1].mood = "sad" /\ moodHistory[1].moodIntensity = 3
  /\ moodHistory[1].notes = Some("a")
  /\ moodHistory[2].mood = "sad" /\ moodHistory[2].notes = Null
  /\ Cardinality(HabitMatches(1, 1, 0)) = 2
  /\ habitCompletions[1].completed = 0 /\ habitCompletions[2].completed = 1

(* ---------------------- the completion timestamp ------------------------ *)

\* The index of the row a toggle of (habitId, userId, date) writes: the first
\* row of the day when there is one, the row it appends when there is none.
WrittenRow(habitId, userId, date) ==
  IF HabitMatches(habitId, userId, date) # {}
    THEN First(HabitMatches(habitId, userId, date))
    ELSE Len(habitCompletions) + 1

\* C25: every stored completion has completedAt set exactly when completed
\* is 1; a toggle to completed leaves its row completed with completedAt set,
\* also when the row was completed already, and a toggle to not completed
\* leaves its row with completedAt cleared.
C25_CompletedAtIffCompleted ==
  /\ [](\A i \in 1..Len(habitCompletions) :
          (habitCompletions[i].completedAt # Null) <=>
            (habitCompletions[i].completed = 1))
  /\ [][ \A u \in Users, h \in HabitIds, t \in Instants, c \in BOOLEAN :
           (dbAvailable /\ HabitToggle(u, h, t, c))
           => LET r == habitCompletions'[WrittenRow(h, u, t)] IN
                /\ r.completed = (IF c THEN 1 ELSE 0)
                /\ c => r.completedAt # Null
                /\ ~c => r.completedAt = Null
       ]_vars

\* A toggle has just written a row that was stored already; of the two stored
\* completions one is not completed and has no timestamp, the other is
\* completed and has one.
C25_CompletedTwiceAndCleared ==
  /\ lastOp.op = "habitCompletions.toggle" /\ lastOp.result = "ok"
  /\ lastOp.found
  /\ Len(habitCompletions) = 2
  /\ habitCompletions[1].completed = 0 /\ habitCompletions[1].completedAt = Null
  /\ habitCompletions[2].completed = 1 /\ habitCompletions[2].completedAt # Null

(* ----------------------------- the day window --------------------------- *)

\* The rows of an answer.
RowsOf(answer) == { answer[i] : i \in 1..Len(answer) }

\* The stored row is dated at the first or at the last instant of its day.
AtDayBound(r) == r.date = startOfDay(r.date) \/ r.date = endOfDay(r.date)

\* C26: the day window of an instant d runs from 00:00:00.000 to 23:59:59.999
\* of d's local day, bounds included: it contains d, two instants have the
\* same window exactly when they lie on one local day, windows of different
\* days do not meet, and a stored row dated at either bound of its day is
\* found by the lookups of the upserts and of the by-date reads for an instant
\* of that day and for no instant of another day.
C26_DayWindowIsTheLocalDay ==
  /\ \A d \in Instants :
       /\ startOfDay(d) <= d /\ d <= endOfDay(d)
       /\ startOfDay(d) % MsPerDay = 0
       /\ endOfDay(d) % MsPerDay = EndOfDayOffset
       /\ LocalDay(startOfDay(d)) = LocalDay(d)
       /\ LocalDay(endOfDay(d)) = LocalDay(d)
  /\ \A d, e \in Instants :
       /\ (startOfDay(d) = startOfDay(e) /\ endOfDay(d) = endOfDay(e))
            <=> (LocalDay(d) = LocalDay(e))
       /\ LocalDay(d) # LocalDay(e)
            => (endOfDay(d) < startOfDay(e) \/ endOfDay(e) < startOfDay(d))
  /\ \A i \in 1..Len(moodHistory), e \in Instants :
       LET r == moodHistory[i] IN
         AtDayBound(r) =>
           /\ MoodDayMatch(r.userId, e, r) <=> (LocalDay(e) = LocalDay(r.date))
           /\ dbAvailable =>
                ((r \in RowsOf(getMoodHistoryByDate(r.userId, e)))
                   <=> (LocalDay(e) = LocalDay(r.date)))
  /\ \A i \in 1..Len(habitCompletions), e \in Instants :
       LET r == habitCompletions[i] IN
         AtDayBound(r) =>
           /\ HabitDayMatch(r.habitId, r.userId, e, r)
                <=> (LocalDay(e) = LocalDay(r.date))
           /\ dbAvailable =>
                ((r \in RowsOf(getHabitCompletionsByDate(r.userId, e)))
                   <=> (LocalDay(e) = LocalDay(r.date)))

\* A user's mood of the last instant of the first day is stored beside their
\* mood of the first instant of the second day, and an upsert has just found
\* one of the two.
C26_RowsAtBothSidesOfMidnight ==
  /\ lastOp = Outcome("mood.record", "ok", TRUE)
  /\ \E i, j \in 1..Len(moodHistory) :
       /\ moodHistory[i].userId = moodHistory[j].userId
       /\ moodHistory[i].date = EndOfDayOffset
       /\ moodHistory[j].date = MsPerDay

(* --------------------- mood.record, the intensity sent ------------------ *)

\* A number is sent as its count of tenths: 75 is 7.5.
\* z.number().min(1).max(10)
IntensityAccepted(tenths) == tenths >= 10 /\ tenths <= 100

\* What the column moodIntensity int keeps of a number: the number when it is
\* whole, else a whole number next to it (which of the two at a half is the
\* storage's choice).
IntColumn(tenths) ==
  IF tenths % 10 = 0 THEN {tenths \div 10}
  ELSE IF tenths % 10 < 5 THEN {tenths \div 10}
  ELSE IF tenths % 10 > 5 THEN {tenths \div 10 + 1}
  ELSE {tenths \div 10, tenths \div 10 + 1}

\* mood.record with the intensity as the client may send it, any number.
MoodRecordNumber(userId, date, mood, tenths, notes) ==
  IF mood \in MoodSet /\ IntensityAccepted(tenths)
    THEN \E v \in IntColumn(tenths) :
           MoodRecord(userId, date,
                      [mood |-> mood, moodIntensity |-> v, notes |-> notes])
    ELSE /\ lastOp' = Outcome("mood.record", "BAD_REQUEST", FALSE)
         /\ UNCHANGED <<dbAvailable, now, moodHistory, habitCompletions,
                        inFlight, staleWrite, insightVars, journalVars, page>>

\* The intensities sent: below the range, its ends, a half, above the range.
IntensityInputs == {5, 10, 75, 100, 105}

MoodInputs == {"good", "happy"}

DoMoodRecordNumber ==
  \E u \in Users, t \in DayStarts, mood \in MoodInputs, n \in IntensityInputs :
    MoodRecordNumber(u, t, mood, n, Undefined)

NextNumber == DoMoodRecordNumber

\* mood.record called with any category and any number as intensity.
SpecNumber == Init /\ [][NextNumber]_vars

\* C27: every stored mood has one of the five categories and a whole
\* intensity from 1 to 10, and a mood.record call whose category is not one
\* of the five or whose intensity is out of that range or not whole is
\* rejected and leaves the store as it was (storage being available).
C27_OnlyWholeIntensitiesAccepted ==
  /\ [](\A i \in 1..Len(moodHistory) :
          /\ moodHistory[i].mood \in MoodSet
          /\ moodHistory[i].moodIntensity \in 1..10)
  /\ [][ \A u \in Users, t \in DayStarts, mood \in MoodInputs,
            n \in IntensityInputs :
           ( /\ dbAvailable
             /\ mood \notin MoodSet \/ ~IntensityAccepted(n) \/ n % 10 # 0
             /\ MoodRecordNumber(u, t, mood, n, Undefined) )
           => /\ lastOp'.result = "BAD_REQUEST"
              /\ moodHistory' = moodHistory
       ]_vars

(* ------------------- the average score and its column ------------------- *)

\* The rows of a list of strong moods, all from mood.record's range 1..10.
ScoreRows ==
  { [mood |-> "excellent", moodIntensity |-> 10],
    [mood |-> "good", moodIntensity |-> 9] }

NextScore == \E m \in ScoreRows : LoopStep(m)

\* generateInsights' loop over a list of strong moods of any length up to
\* MaxMoods.
SpecScore == Init /\ [][NextScore]_vars

\* C28: the averageMoodScore computed from a list of moods that is not empty,
\* their intensities from 1 to 10, fits the column decimal(3,2), whose
\* greatest value is 9.99.
C28_AverageFitsItsColumn ==
  loop.length > 0 => DecimalFits(Aggregate(loop).averageMoodScore)

(* ------------------------- the habit progress bar ----------------------- *)

\* completionsQuery.data?.filter(c => c.completed === 1).length || 0, the
\* query being habitCompletions.getByDate({ date: new Date() })
completedCount(userId) ==
  Len(SelectSeq(getHabitCompletionsByDate(userId, now),
                LAMBDA c : c.completed = 1))

\* habitsQuery.data?.length || 0, the query being habits.list
totalHabits(userId) == Len(getHabitsByUser(userId))

\* C29: the count of completed habits that the progress display shows never
\* exceeds the total of active habits shown beside it.
C29_CompletedNeverExceedsTotal ==
  \A u \in Users : completedCount(u) <= totalHabits(u)

\* C30: every stored completion is of a habit that is stored and belongs to
\* the user of the completion.
C30_CompletionsReferToOwnHabits ==
  \A i \in 1..Len(habitCompletions) :
    \E j \in 1..Len(habits) :
      /\ habits[j].id = habitCompletions[i].habitId
      /\ habits[j].userId = habitCompletions[i].userId

====
